---- MODULE Spec2Model ----
(***************************************************************************)
(* NyaZoom: upload files into a zip archive, hand out a link that is good *)
(* for three days or five downloads, whichever ends first.                 *)
(*                                                                         *)
(* The model follows src/src/main.rs (the handlers and the cleaning task), *)
(* src/src/state.rs (UploadRecord, remove_record) and src/src/cache.rs     *)
(* (the ledger snapshot .cache/data).  Every handler is cut where the code *)
(* gives up the ledger mutex; what a handler does while it holds the mutex *)
(* is one step.  The cleaning task keeps the mutex over its whole sweep    *)
(* and removes one record per step.  A file-system call that can fail      *)
(* takes its outcome as an input of the step.                              *)
(***************************************************************************)
EXTENDS Integers, Sequences, FiniteSets, TLC

VARIABLES
    now,        \* Utc::now(), in days
    records,    \* AppState.records: token -> UploadRecord
    lock,       \* holder of the tokio Mutex around records
    files,      \* .cache/serve: archive name -> contents
    snapshot,   \* .cache/data: absent, a serialized ledger, or a cut-off write
    up,         \* upload_to_zip handlers between File::create and the insert
    pending,    \* per id, the download and link handlers between check and remove_record
    reaper,     \* the cleaning task spawned in main
    last,       \* what the handler that ended last answered
    client,     \* a client that sends download requests and counts the answers
    proc        \* the server process: whether main runs, and how often it was started

vars == <<now, records, lock, files, snapshot, up, pending, reaper, last, client,
          proc>>

----------------------------------------------------------------------------
(* Program constants *)

\* state.rs: Duration::days(3)
TTL_DAYS == 3

\* state.rs: Default for UploadRecord, max_downloads: 5
DEFAULT_MAX_DOWNLOADS == 5

\* state.rs: downloads and max_downloads are u8
U8 == 256

----------------------------------------------------------------------------
(* Bounds of the model *)

\* the clock stops after this many days
MaxClock == 3

\* download and link handlers that can wait for the mutex at the same time
MaxPending == 2

\* upload_to_zip handlers that can stream at the same time
MaxStreams == 1

\* times the process is killed and started again
MaxBoots == 2

\* names get_random_name can return
Tokens == {"t1"}

\* file names a client sends: a path-traversal one
RawNames == { <<".", ".", "/", "a">> }

----------------------------------------------------------------------------
(* Functions with a finite domain, as HashMap and the directory are used *)

Put(f, k, v) == [x \in DOMAIN f \cup {k} |-> IF x = k THEN v ELSE f[x]]

Drop(f, k) == [x \in DOMAIN f \ {k} |-> f[x]]

Empty == [x \in {} |-> 0]

----------------------------------------------------------------------------
(* state.rs: UploadRecord *)

\* UploadRecord::new(file) over Default: uploaded now, no downloads, five allowed
NewUploadRecord(file) ==
    [uploaded |-> now, file |-> file, downloads |-> 0,
     max_downloads |-> DEFAULT_MAX_DOWNLOADS]

\* a faulty variant: the count test lets the last allowed count through
can_be_downloaded_Inclusive(record, t) ==
    (t - record.uploaded) < TTL_DAYS /\ record.downloads <= record.max_downloads

\* a faulty variant: the age of the upload is not looked at
can_be_downloaded_NoTTL(record, t) ==
    record.downloads < record.max_downloads

\* UploadRecord::can_be_downloaded, with Utc::now() = t
can_be_downloaded(record, t) ==
    (t - record.uploaded) < TTL_DAYS /\ record.downloads < record.max_downloads

\* UploadRecord::downloads_remaining: a u8 subtraction
downloads_remaining(record) ==
    (record.max_downloads - record.downloads) % U8

----------------------------------------------------------------------------
(* cache.rs: the snapshot file *)

\* .cache/data does not exist
NoSnapshot == [kind |-> "absent", ledger |-> Empty]

\* File::create has emptied .cache/data and the copy into it did not finish
CutSnapshot == [kind |-> "cut", ledger |-> Empty]

\* outcomes of write_to_cache: Ok, Err from the copy, panic from File::create
CacheOutcomes == {"ok", "err", "panic"}

\* write_to_cache(records): what .cache/data holds afterwards; old is what it held
write_to_cache(recs, outcome, old) ==
    CASE outcome = "ok" -> [kind |-> "full", ledger |-> recs]
      [] outcome = "err" -> CutSnapshot
      [] OTHER -> old

\* fetch_cache(): the ledger main starts with.  File::open is Err for a file that
\* is not there, and the ledger is empty then; read_to_end (readOk) and
\* bincode::deserialize_from are unwrapped, and a file that is empty or holds the
\* front of a ledger only does not deserialize
fetch_cache(snap, readOk) ==
    CASE snap.kind = "absent" -> [ledger |-> Empty, result |-> "ok"]
      [] snap.kind = "full" /\ readOk -> [ledger |-> snap.ledger, result |-> "ok"]
      [] OTHER -> [ledger |-> Empty, result |-> "panic"]

----------------------------------------------------------------------------
(* state.rs: AsyncRemoveRecord for HashMap<String, UploadRecord> *)

\* tokio::fs::remove_file(path): Ok only for a file that is there, and only when
\* the file system allows it (allowed)
remove_file(fls, path, allowed) == allowed /\ path \in DOMAIN fls

\* a faulty variant: a vacant entry counts as removed and the ledger is written out
remove_record_VacantOk(recs, fls, snap, id, rmOk, cache) ==
    IF id \notin DOMAIN recs
    THEN [records |-> recs, files |-> fls,
          snapshot |-> write_to_cache(recs, cache, snap),
          result |-> CASE cache = "ok" -> "ok" [] cache = "err" -> "io"
                       [] OTHER -> "panic"]
    ELSE IF ~remove_file(fls, recs[id].file, rmOk)
    THEN [records |-> recs, files |-> fls, snapshot |-> snap, result |-> "io"]
    ELSE [records |-> Drop(recs, id),
          files |-> Drop(fls, recs[id].file),
          snapshot |-> write_to_cache(Drop(recs, id), cache, snap),
          result |-> CASE cache = "ok" -> "ok" [] cache = "err" -> "io"
                       [] OTHER -> "panic"]

\* remove_record(id) on the map: the ledger, the directory and the snapshot
\* afterwards, and Ok ("ok"), Err for a vacant entry ("vacant"), Err from the
\* file system ("io") or the panic of write_to_cache ("panic")
remove_record(recs, fls, snap, id, rmOk, cache) ==
    IF id \notin DOMAIN recs
    THEN [records |-> recs, files |-> fls, snapshot |-> snap, result |-> "vacant"]
    ELSE IF ~remove_file(fls, recs[id].file, rmOk)
    THEN [records |-> recs, files |-> fls, snapshot |-> snap, result |-> "io"]
    ELSE [records |-> Drop(recs, id),
          files |-> Drop(fls, recs[id].file),
          snapshot |-> write_to_cache(Drop(recs, id), cache, snap),
          result |-> CASE cache = "ok" -> "ok" [] cache = "err" -> "io"
                       [] OTHER -> "panic"]

----------------------------------------------------------------------------
(* main.rs: use sanitize_filename_reader_friendly::sanitize *)

\* the characters a path is cut at
Separators == {"/", "\\"}

\* a faulty variant: the name is used as the client sent it
sanitize_Identity(name) == name

\* sanitize(file_name): every path separator becomes an underscore.  (The crate
\* also folds white space and control characters, which no name here holds.)
RECURSIVE sanitize(_)
sanitize(name) ==
    IF name = <<>> THEN <<>>
    ELSE <<IF Head(name) \in Separators THEN "_" ELSE Head(name)>>
         \o sanitize(Tail(name))

----------------------------------------------------------------------------
(* The state after main has called fetch_cache on a first start *)

\* culled: the records this sweep has logged as "culling"
Asleep == [pc |-> "sleep", copy |-> Empty, culled |-> {}]

NoClient == [to_send |-> 0, served |-> 0, not_found |-> 0, aborted |-> 0]

\* main has come through fetch_cache and serves; boots counts the restarts
FirstStart == [state |-> "up", boots |-> 0]

RECURSIVE Sum(_, _)
Sum(f, S) ==
    IF S = {} THEN 0
    ELSE LET x == CHOOSE y \in S : TRUE IN f[x] + Sum(f, S \ {x})

Waiting == Sum(pending, Tokens)

Streaming == Sum(up, Tokens)

Init ==
    /\ now = 0
    /\ records = Empty
    /\ lock = "free"
    /\ files = Empty
    /\ snapshot = NoSnapshot
    /\ up = [name \in Tokens |-> 0]
    /\ pending = [id \in Tokens |-> 0]
    /\ reaper = Asleep
    /\ last = "none"
    /\ client = NoClient
    /\ proc = FirstStart

----------------------------------------------------------------------------
(* Time *)

Tick ==
    /\ now < MaxClock
    /\ now' = now + 1
    /\ UNCHANGED <<records, lock, files, snapshot, up, pending, reaper, last>>

----------------------------------------------------------------------------
(* main.rs: upload_to_zip *)

NewArchive == [entries |-> {}, final |-> FALSE]

\* a write through the handler's open file: lost when the name has been unlinked
WriteEntry(fls, path, entry) ==
    IF path \in DOMAIN fls
    THEN Put(fls, path, [fls[path] EXCEPT !.entries = @ \cup {entry}])
    ELSE fls

\* writer.close(): the central directory is written
CloseArchive(fls, path) ==
    IF path \in DOMAIN fls
    THEN Put(fls, path, [fls[path] EXCEPT !.final = TRUE])
    ELSE fls

\* a faulty variant: the guard taken for the debug line is kept over the upload
UploadStart_KeepsLock(name, createOk) ==
    /\ Streaming < MaxStreams
    /\ lock = "free"
    /\ IF createOk
       THEN /\ files' = Put(files, name, NewArchive)
            /\ up' = [up EXCEPT ![name] = @ + 1]
            /\ last' = last
            /\ lock' = "upload"
       ELSE /\ files' = files
            /\ up' = up
            /\ last' = "upload_error"
            /\ lock' = lock
    /\ UNCHANGED <<now, records, snapshot, pending, reaper>>

\* lines 226-237: the mutex is taken for the debug line, a name is drawn, the
\* archive is created (an existing file of that name is emptied)
UploadStart(name, createOk) ==
    /\ Streaming < MaxStreams
    /\ lock = "free"
    /\ IF createOk
       THEN /\ files' = Put(files, name, NewArchive)
            /\ up' = [up EXCEPT ![name] = @ + 1]
            /\ last' = last
       ELSE /\ files' = files
            /\ up' = up
            /\ last' = "upload_error"
    /\ UNCHANGED <<now, records, lock, snapshot, pending, reaper>>

\* a form field without a file name, and a file part under the name the client sent
NoFilePart == [named |-> FALSE, name |-> <<>>]

FilePart(raw) == [named |-> TRUE, name |-> raw]

Parts == {NoFilePart} \cup {FilePart(raw) : raw \in RawNames}

\* what one turn of the while loop can meet: the multipart stream breaks
\* (next_field is Err), or, for a file part, the copy or the entry's close is Err
FieldOutcomes(part) ==
    IF part.named THEN {"ok", "multipart_err", "copy_err", "close_err"}
    ELSE {"ok", "multipart_err"}

\* lines 239-267: one turn of the loop over the multipart body.  An entry the
\* copy broke off in leaves bytes in the file and no entry of the archive
UploadField(name, part, io) ==
    /\ up[name] > 0
    /\ CASE io = "multipart_err" ->
              \* body.next_field().await.unwrap()
              /\ files' = files
              /\ up' = [up EXCEPT ![name] = @ - 1]
              /\ last' = "upload_panic"
         [] io = "ok" /\ ~part.named ->
              \* file_name() is None: continue
              /\ files' = files
              /\ up' = up
              /\ last' = last
         [] io = "ok" /\ part.named ->
              /\ files' = WriteEntry(files, name, sanitize(part.name))
              /\ up' = up
              /\ last' = last
         [] OTHER ->
              \* tokio::io::copy or the entry's close returned Err: the ? returns
              /\ files' = files
              /\ up' = [up EXCEPT ![name] = @ - 1]
              /\ last' = "upload_error"
    /\ UNCHANGED <<now, records, lock, snapshot, pending, reaper>>

\* lines 269-289: the body has ended; under the mutex the record is inserted and
\* the ledger written out, then the archive is closed
UploadFinish(name, cache, closeOk) ==
    /\ up[name] > 0
    /\ lock = "free"
    /\ LET inserted == Put(records, name, NewUploadRecord(name))
       IN  /\ records' = inserted
           /\ snapshot' = write_to_cache(inserted, cache, snapshot)
           /\ files' = IF cache = "ok" /\ closeOk
                       THEN CloseArchive(files, name) ELSE files
           /\ up' = [up EXCEPT ![name] = @ - 1]
           /\ last' = CASE cache = "err" -> "upload_error"
                        [] cache = "panic" -> "upload_panic"
                        [] OTHER -> IF closeOk THEN "uploaded" ELSE "upload_panic"
    /\ UNCHANGED <<now, lock, pending, reaper>>

----------------------------------------------------------------------------
(* main.rs: download, link, link_delete *)

\* tokio::fs::File::open(path): Ok only for a file that is there, and only when
\* the file system allows it (allowed)
open_file(fls, path, allowed) == allowed /\ path \in DOMAIN fls

\* lines 297-322: the block under the mutex.  hx: the request carries hx-request.
\* A handler that finds no record to serve leaves the block and waits for the
\* mutex again
Download(id, hx, openOk) ==
    /\ lock = "free"
    /\ IF hx
       THEN /\ records' = records
            /\ pending' = pending
            /\ last' = "no_content"
       ELSE IF id \in DOMAIN records /\ can_be_downloaded(records[id], now)
       THEN /\ records' = [records EXCEPT ![id].downloads = @ + 1]
            /\ pending' = pending
            /\ last' = IF open_file(files, records[id].file, openOk)
                       THEN "served" ELSE "panic_io"
       ELSE /\ Waiting < MaxPending
            /\ records' = records
            /\ pending' = [pending EXCEPT ![id] = @ + 1]
            /\ last' = last
    /\ UNCHANGED <<now, lock, files, snapshot, up, reaper>>

\* lines 178-191: the block under the mutex
Link(id) ==
    /\ lock = "free"
    /\ IF id \in DOMAIN records /\ can_be_downloaded(records[id], now)
       THEN /\ pending' = pending
            /\ last' = "page"
       ELSE /\ Waiting < MaxPending
            /\ pending' = [pending EXCEPT ![id] = @ + 1]
            /\ last' = last
    /\ UNCHANGED <<now, records, lock, files, snapshot, up, reaper>>

\* lines 324-327 of download and 193-196 of link, which are the same:
\* state.remove_record(&id).await.unwrap() takes the mutex again; after Ok the
\* handler redirects to /404.html, after Err the unwrap panics
RemoveAndRedirect(id, rmOk, cache) ==
    /\ pending[id] > 0
    /\ lock = "free"
    /\ LET rr == remove_record(records, files, snapshot, id, rmOk, cache)
       IN  /\ records' = rr.records
           /\ files' = rr.files
           /\ snapshot' = rr.snapshot
           /\ last' = CASE rr.result = "ok" -> "not_found"
                        [] rr.result = "vacant" -> "panic_vacant"
                        [] OTHER -> "panic_io"
    /\ pending' = [pending EXCEPT ![id] = @ - 1]
    /\ UNCHANGED <<now, lock, up, reaper>>

\* lines 199-209: Err becomes a 500 with the error's text
LinkDelete(id, rmOk, cache) ==
    /\ lock = "free"
    /\ LET rr == remove_record(records, files, snapshot, id, rmOk, cache)
       IN  /\ records' = rr.records
           /\ files' = rr.files
           /\ snapshot' = rr.snapshot
           /\ last' = CASE rr.result = "ok" -> "deleted"
                        [] rr.result = "vacant" -> "delete_error_vacant"
                        [] rr.result = "io" -> "delete_error_io"
                        [] OTHER -> "panic_io"
    /\ UNCHANGED <<now, lock, up, pending, reaper>>

\* a faulty variant: the query expires a record that can no longer be downloaded
Remaining_Expiring(id) ==
    /\ lock = "free"
    /\ IF id \in DOMAIN records
       THEN /\ last' = IF downloads_remaining(records[id]) = 0
                       THEN "remaining_none" ELSE "remaining_some"
            /\ records' = IF can_be_downloaded(records[id], now)
                          THEN records ELSE Drop(records, id)
       ELSE /\ last' = "remaining_unknown"
            /\ records' = records
    /\ UNCHANGED <<now, lock, files, snapshot, up, pending, reaper>>

\* lines 117-133: under the mutex, the text with downloads_remaining for a
\* record that is there ("remaining_none" when the number is 0) and "?" for a
\* token that is not
Remaining(id) ==
    /\ lock = "free"
    /\ last' = IF id \in DOMAIN records
               THEN IF downloads_remaining(records[id]) = 0
                    THEN "remaining_none" ELSE "remaining_some"
               ELSE "remaining_unknown"
    /\ UNCHANGED <<now, records, lock, files, snapshot, up, pending, reaper>>

----------------------------------------------------------------------------
(* main.rs: the cleaning task *)

\* a faulty variant: the sweep culls whatever it meets
Culls_Everything(record, t) == TRUE

\* line 78: if !record.can_be_downloaded()
Culls(record, t) == ~can_be_downloaded(record, t)

\* lines 72-77: the sleep is over; the mutex is taken and the map cloned
ReaperWake ==
    /\ reaper.pc = "sleep"
    /\ lock = "free"
    /\ lock' = "reaper"
    /\ reaper' = [pc |-> "sweep", copy |-> records, culled |-> {}]
    /\ UNCHANGED <<now, records, files, snapshot, up, pending, last>>

\* lines 77-82: one turn of the for loop, in the order the HashMap gives.  An Err
\* of remove_record is unwrapped: the task ends and its guard frees the mutex
ReaperStep(key, rmOk, cache) ==
    /\ reaper.pc = "sweep"
    /\ key \in DOMAIN reaper.copy
    /\ IF Culls(reaper.copy[key], now)
       THEN LET rr == remove_record(records, files, snapshot, key, rmOk, cache)
            IN  /\ records' = rr.records
                /\ files' = rr.files
                /\ snapshot' = rr.snapshot
                /\ IF rr.result = "ok"
                   THEN /\ reaper' = [reaper EXCEPT !.copy = Drop(@, key),
                                                     !.culled = @ \cup {key}]
                        /\ lock' = lock
                   ELSE /\ reaper' = [pc |-> "dead", copy |-> Empty, culled |-> {}]
                        /\ lock' = "free"
       ELSE /\ reaper' = [reaper EXCEPT !.copy = Drop(@, key)]
            /\ UNCHANGED <<records, files, snapshot, lock>>
    /\ UNCHANGED <<now, up, pending, last>>

\* the for loop is through: the guard is dropped and the task sleeps again
ReaperSleep ==
    /\ reaper.pc = "sweep"
    /\ DOMAIN reaper.copy = {}
    /\ lock' = "free"
    /\ reaper' = Asleep
    /\ UNCHANGED <<now, records, files, snapshot, up, pending, last>>

----------------------------------------------------------------------------
(* The program *)

\* no client is counting
Quiet == UNCHANGED client

\* the process runs, and goes on running
Alive == proc.state = "up" /\ UNCHANGED proc

Next ==
    \/ Tick /\ Quiet /\ Alive
    \/ \E name \in Tokens, createOk \in BOOLEAN :
          UploadStart(name, createOk) /\ Quiet /\ Alive
    \/ \E name \in Tokens, part \in Parts : \E io \in FieldOutcomes(part) :
          UploadField(name, part, io) /\ Quiet /\ Alive
    \/ \E name \in Tokens, cache \in CacheOutcomes, closeOk \in BOOLEAN :
          UploadFinish(name, cache, closeOk) /\ Quiet /\ Alive
    \/ \E id \in Tokens, hx \in BOOLEAN, openOk \in BOOLEAN :
          Download(id, hx, openOk) /\ Quiet /\ Alive
    \/ \E id \in Tokens : Link(id) /\ Quiet /\ Alive
    \/ \E id \in Tokens, rmOk \in BOOLEAN, cache \in CacheOutcomes :
          RemoveAndRedirect(id, rmOk, cache) /\ Quiet /\ Alive
    \/ \E id \in Tokens, rmOk \in BOOLEAN, cache \in CacheOutcomes :
          LinkDelete(id, rmOk, cache) /\ Quiet /\ Alive
    \/ \E id \in Tokens : Remaining(id) /\ Quiet /\ Alive
    \/ ReaperWake /\ Quiet /\ Alive
    \/ \E key \in Tokens, rmOk \in BOOLEAN, cache \in CacheOutcomes :
          ReaperStep(key, rmOk, cache) /\ Quiet /\ Alive
    \/ ReaperSleep /\ Quiet /\ Alive

Spec == Init /\ [][Next]_vars

----------------------------------------------------------------------------
(* A client that sends N download requests for one record and counts what  *)
(* comes back: the record has just been uploaded, its archive is closed,   *)
(* the file system does not fail and the record stays inside its three     *)
(* days.  The cleaning task runs beside the handlers.                      *)

ClientToken == CHOOSE t \in Tokens : TRUE

\* N: more requests than the record allows downloads
ClientRequests == (DEFAULT_MAX_DOWNLOADS + 1) .. (DEFAULT_MAX_DOWNLOADS + 3)

Answered(c, answer) ==
    CASE answer = "served" -> [c EXCEPT !.served = @ + 1]
      [] answer = "not_found" -> [c EXCEPT !.not_found = @ + 1]
      [] OTHER -> [c EXCEPT !.aborted = @ + 1]

InitClient ==
    /\ now = 0
    /\ records = [t \in {ClientToken} |-> NewUploadRecord(t)]
    /\ lock = "free"
    /\ files = [t \in {ClientToken} |-> [entries |-> {}, final |-> TRUE]]
    /\ snapshot = [kind |-> "full", ledger |-> records]
    /\ up = [name \in Tokens |-> 0]
    /\ pending = [id \in Tokens |-> 0]
    /\ reaper = Asleep
    /\ last = "none"
    /\ \E n \in ClientRequests :
          client = [to_send |-> n, served |-> 0, not_found |-> 0, aborted |-> 0]
    /\ proc = FirstStart

\* a request is sent and its handler runs the block under the mutex
ClientDownload ==
    /\ client.to_send > 0
    /\ Download(ClientToken, FALSE, TRUE)
    /\ client' = IF pending' = pending
                 THEN Answered([client EXCEPT !.to_send = @ - 1], last')
                 ELSE [client EXCEPT !.to_send = @ - 1]
    /\ Alive

\* a waiting handler goes on
ClientRemove ==
    /\ RemoveAndRedirect(ClientToken, TRUE, "ok")
    /\ client' = Answered(client, last')
    /\ Alive

\* the days go by, short of the third
ClientTick ==
    /\ now + 1 < TTL_DAYS
    /\ Tick
    /\ Quiet
    /\ Alive

ClientReaperWake == ReaperWake /\ Quiet /\ Alive

ClientReaperStep == \E key \in Tokens : ReaperStep(key, TRUE, "ok") /\ Quiet /\ Alive

ClientReaperSleep == ReaperSleep /\ Quiet /\ Alive

NextClient ==
    \/ ClientDownload
    \/ ClientRemove
    \/ ClientTick
    \/ ClientReaperWake
    \/ ClientReaperStep
    \/ ClientReaperSleep

SpecClient == InitClient /\ [][NextClient]_vars

----------------------------------------------------------------------------
(* The process is killed and main is started again.  What is in memory is    *)
(* lost: the ledger, the mutex, the handlers and the cleaning task.  The     *)
(* directory .cache/serve and .cache/data stay as the kill left them.  The  *)
(* kill and the next start are one step, as nothing runs in between.        *)

\* main.rs line 65 after a kill: fls and snap are what the kill left on disk
Restart(fls, snap, readOk) ==
    /\ proc.boots < MaxBoots
    /\ LET fc == fetch_cache(snap, readOk)
       IN  /\ records' = fc.ledger
           /\ proc' = [state |-> IF fc.result = "ok" THEN "up" ELSE "failed",
                       boots |-> proc.boots + 1]
           /\ last' = IF fc.result = "ok" THEN "started" ELSE "start_panic"
    /\ files' = fls
    /\ snapshot' = snap
    /\ lock' = "free"
    /\ up' = [name \in Tokens |-> 0]
    /\ pending' = [id \in Tokens |-> 0]
    /\ reaper' = Asleep
    /\ UNCHANGED <<now, client>>

\* the kill falls where no write to the disk is under way, or the process was
\* not running: a start that panicked is tried again
RestartIdle(readOk) ==
    /\ lock = "free"
    /\ Restart(files, snapshot, readOk)

\* where a kill can fall in write_to_cache: after File::create has emptied the
\* file and before the copy is through ("save"), or after the copy ("saved")
SavePoints == {"save", "saved"}

KilledSave(recs, point) ==
    IF point = "save" THEN CutSnapshot ELSE [kind |-> "full", ledger |-> recs]

\* the kill falls in upload_to_zip, lines 273-277: the record is in the ledger,
\* write_to_cache runs or has run, writer.close() has not
RestartInUpload(name, point, readOk) ==
    /\ proc.state = "up"
    /\ up[name] > 0
    /\ lock = "free"
    /\ Restart(files,
               KilledSave(Put(records, name, NewUploadRecord(name)), point),
               readOk)

\* where a kill can fall in remove_record, state.rs lines 85-87: after
\* remove_file ("unlinked"), or in write_to_cache
RemovePoints == {"unlinked"} \cup SavePoints

\* the kill falls in remove_record(id), called by link_delete
RestartInRemove(id, point, readOk) ==
    /\ proc.state = "up"
    /\ lock = "free"
    /\ id \in DOMAIN records
    /\ remove_file(files, records[id].file, TRUE)
    /\ Restart(Drop(files, records[id].file),
               IF point = "unlinked" THEN snapshot
               ELSE KilledSave(Drop(records, id), point),
               readOk)

NextRestart ==
    \/ Next
    \/ \E readOk \in BOOLEAN : RestartIdle(readOk)
    \/ \E name \in Tokens, point \in SavePoints, readOk \in BOOLEAN :
          RestartInUpload(name, point, readOk)
    \/ \E id \in Tokens, point \in RemovePoints, readOk \in BOOLEAN :
          RestartInRemove(id, point, readOk)

SpecRestart == Init /\ [][NextRestart]_vars

----------------------------------------------------------------------------
(* What the specification says, in the terms of the model *)

\* eligible: inside the TTL of three days and under the download ceiling
Eligible(record, t) ==
    (t - record.uploaded) < 3 /\ record.downloads < record.max_downloads

\* a step in which the download handler let a request for id through
Admitted(id) ==
    /\ id \in DOMAIN records
    /\ id \in DOMAIN records'
    /\ records'[id].downloads = records[id].downloads + 1

\* a step in which upload_to_zip put a new record under id
Reuploaded(id) ==
    /\ up'[id] < up[id]
    /\ id \in DOMAIN records'
    /\ records'[id].downloads = 0
    /\ records'[id].uploaded = now

\* a step in which a handler that waited came back from remove_record(id)
RemoveReturned(id) == pending'[id] < pending[id]

\* a step in which upload_to_zip for name ended with the answer a
UploadEnded(name, a) == up'[name] < up[name] /\ last' = a

HasSeparator(name) == \E i \in 1 .. Len(name) : name[i] \in {"/", "\\"}

\* a file name that leaves the directory it is put in
Unsafe(raw) == HasSeparator(raw)

\* C1 (as stated; under SpecClient): of N concurrent download requests
\* for one record with max_downloads = M < N, inside its TTL, exactly M are
\* served, the other N - M each get the not-found answer, and the record's
\* count ends at M.
C1_ExactlyMServedRestNotFound ==
    (client.to_send = 0 /\ Waiting = 0)
        => /\ client.served = DEFAULT_MAX_DOWNLOADS
           /\ client.aborted = 0
           /\ \A t \in DOMAIN records : records[t].downloads = DEFAULT_MAX_DOWNLOADS

\* C2: in every reachable state every record of the ledger has
\* 0 <= downloads <= max_downloads, so that downloads_remaining, a u8
\* subtraction, is max_downloads - downloads and never wraps.
C2_CountWithinCeiling ==
    \A t \in DOMAIN records :
        /\ 0 <= records[t].downloads
        /\ records[t].downloads <= records[t].max_downloads
        /\ downloads_remaining(records[t])
             = records[t].max_downloads - records[t].downloads

\* C2, its case: a record has been downloaded as often as it may be
C2_Witness ==
    \E t \in DOMAIN records :
        /\ records[t].downloads = records[t].max_downloads
        /\ last = "served"

\* C3 (as stated): a download or link request for a token that is not eligible
\* always ends with the not-found answer, also when the token is absent; the
\* request never ends abnormally.  (A handler the file system failed is left
\* out here: that is C5.)
C3_IneligibleAlwaysNotFound ==
    [][\A id \in Tokens :
          RemoveReturned(id) => last' \in {"not_found", "panic_io"}]_vars

\* C4: once a record is ineligible (its TTL is over or its count is at the
\* ceiling) no download of it is let through any more: it stays ineligible
\* until it is removed; only a new upload under the same name puts a new,
\* eligible record there.
C4_IneligibleForGood ==
    [][\A id \in Tokens :
          (id \in DOMAIN records /\ ~Eligible(records[id], now))
             => /\ ~Admitted(id)
                /\ \/ id \notin DOMAIN records'
                   \/ ~Eligible(records'[id], now')
                   \/ Reuploaded(id)]_vars

\* C4, its case: a request has met a record that is there and ineligible
C4_Witness ==
    \E id \in DOMAIN records :
        /\ ~Eligible(records[id], now)
        /\ pending[id] > 0

\* C5 (as stated): remove on a present token removes the ledger entry also when
\* the backing file is missing or cannot be deleted.
C5_RemoveIsBestEffort ==
    [][\A id \in Tokens :
          (RemoveReturned(id) /\ id \in DOMAIN records)
             => id \notin DOMAIN records']_vars

\* C6 (as stated): a file deletion that fails during a sweep does not stop the
\* cleaning task: the task never ends on a step that left the ledger as it was.
C6_ReaperSurvivesFailedDeletion ==
    [][(reaper.pc = "sweep" /\ reaper'.pc = "dead")
          => DOMAIN records' # DOMAIN records]_vars

\* C7: the cleaning task never removes a record that is eligible at the moment
\* of the removal, whatever uploads, downloads and deletes ran before or wait.
C7_ReaperRemovesOnlyIneligible ==
    [][\A id \in DOMAIN records :
          (lock = "reaper" /\ id \notin DOMAIN records')
             => ~Eligible(records[id], now)]_vars

\* C7, its case: a sweep has culled a record while an upload streams
C7_Witness ==
    /\ reaper.pc = "sweep"
    /\ reaper.culled # {}
    /\ \E name \in Tokens : up[name] > 0

\* C8 (as stated): when an upload fails while it streams into the archive, no
\* archive file of it is left in .cache/serve.
C8_FailedUploadLeavesNoFile ==
    [][\A name \in Tokens :
          ( /\ \/ UploadEnded(name, "upload_error")
               \/ UploadEnded(name, "upload_panic")
            /\ name \notin DOMAIN records'
            /\ up'[name] = 0 )
             => name \notin DOMAIN files']_vars

\* C9 (as stated): an upload that ends in an error leaves the ledger's set of
\* tokens as it was before.
C9_FailedUploadLeavesNoRecord ==
    [][\A name \in Tokens :
          UploadEnded(name, "upload_error")
             => DOMAIN records' = DOMAIN records]_vars

\* C10 (as stated): an upload with a part under an unsafe name is rejected as a
\* whole: no record is made whose archive holds an entry for that part.
C10_UnsafeNameRejected ==
    \A t \in DOMAIN records \cap DOMAIN files :
        \A raw \in RawNames :
            Unsafe(raw) => sanitize(raw) \notin files[t].entries

\* C10 (amended): an upload with a part under an unsafe name is not rejected;
\* the part goes into the archive under the sanitized name, which holds no path
\* separator, and the upload makes its archive and its record like any other.
C10_EntriesHoldNoSeparator ==
    \A t \in DOMAIN files :
        \A entry \in files[t].entries : ~HasSeparator(entry)

\* C10, its case: a finished upload whose archive holds the part sent under an
\* unsafe name
C10_Witness ==
    \E t \in DOMAIN records \cap DOMAIN files :
        /\ files[t].final
        /\ last = "uploaded"
        /\ \E raw \in RawNames : Unsafe(raw) /\ sanitize(raw) \in files[t].entries

\* a step in which upload_to_zip put a record under name
Inserted(name) == up'[name] < up[name] /\ name \in DOMAIN records'

\* C11 (as stated): an upload never touches a live record: when the name drawn
\* for it is a key of the ledger already, the record under that key and its
\* archive are after every step of the upload what they were before.
C11_InsertNeverOverwrites ==
    [][\A id \in DOMAIN records :
          (up'[id] # up[id])
             => /\ id \in DOMAIN records'
                /\ records'[id] = records[id]
                /\ (id \in DOMAIN files
                      => id \in DOMAIN files' /\ files'[id] = files[id])]_vars

\* a step in which the remaining handler answered
RemainingAnswered ==
    /\ last' # last
    /\ last' \in {"remaining_none", "remaining_some", "remaining_unknown"}

\* C13: the remaining-downloads query changes nothing: for a token that is there
\* or not, also for a record that can no longer be downloaded, the ledger, the
\* archives and the snapshot are after the query what they were before.
C13_RemainingChangesNothing ==
    [][RemainingAnswered
          => /\ records' = records
             /\ files' = files
             /\ snapshot' = snapshot]_vars

\* C13, its case: the query has answered 0 for a record at its ceiling, which
\* is still in the ledger
C13_Witness ==
    /\ last = "remaining_none"
    /\ \E id \in DOMAIN records : ~Eligible(records[id], now)

\* a step in which link_delete answered
DeleteAnswered ==
    /\ last' # last
    /\ last' \in {"deleted", "delete_error_vacant", "delete_error_io"}

\* C14: a delete of a token that is not in the ledger gets the error
\* "No UploadRecord Found" and no panic, whatever the file system does, and
\* leaves the ledger, the archives and the snapshot as they were; the token is
\* absent afterwards as before, so that a second delete gets the same.
C14_DeleteOfAbsentIsAnError ==
    [][\A id \in Tokens :
          id \notin DOMAIN records
             => /\ \A rmOk \in BOOLEAN, cache \in CacheOutcomes :
                      remove_record(records, files, snapshot, id, rmOk, cache).result
                          = "vacant"
                /\ DeleteAnswered
                      => /\ last' = "delete_error_vacant"
                         /\ records' = records
                         /\ files' = files
                         /\ snapshot' = snapshot]_vars

\* C14, its case: a delete of an absent token has been answered, after an
\* upload and a delete that took the record away
C14_Witness ==
    /\ last = "delete_error_vacant"
    /\ records = Empty
    /\ snapshot.kind = "full"

\* C15 (as stated): in download and link, the check and the removal are one
\* critical section: while a handler is between its check and its removal, no
\* other operation changes the ledger.
C15_CheckAndRemovalAreOneSection ==
    [][(Waiting > 0 /\ pending' = pending) => records' = records]_vars

\* C16 (as stated): an upload's record goes into the ledger and the snapshot
\* only after its archive has been closed: at the step that inserts the record
\* the archive is final already.
C16_ArchiveClosedBeforeInsert ==
    [][\A name \in Tokens :
          Inserted(name)
             => name \in DOMAIN files /\ files[name].final]_vars

\* C17 (as stated): whenever nobody holds the mutex, the snapshot holds exactly
\* the tokens of the ledger.
C17_SnapshotHoldsTheLedgersTokens ==
    lock = "free" => DOMAIN snapshot.ledger = DOMAIN records

\* C19: the mutex is not held while an upload streams: as long as an upload is
\* between File::create and its insert, the mutex is free or with the cleaning
\* task in its sweep, never with the upload.
C19_StreamingHoldsNoLock ==
    Streaming > 0
       => \/ lock = "free"
          \/ lock = "reaper" /\ reaper.pc = "sweep"

\* C19, its case: while an upload streams, a download has been served
C19_Witness ==
    /\ Streaming > 0
    /\ lock = "free"
    /\ last = "served"

\* a step in which the process was killed and main started again
Restarted == proc'.boots > proc.boots

\* C12 (as stated; under SpecRestart): the start never fails: when .cache/data
\* is absent, empty or does not deserialize, main goes on with an empty ledger.
C12_StartNeverFails ==
    [][Restarted
          => /\ proc'.state = "up"
             /\ snapshot'.kind # "full" => records' = Empty]_vars

\* C18 (as stated; under SpecRestart): .cache/data is replaced in one piece: at
\* every moment, also after a kill in the middle of a save, it holds a whole
\* ledger, the one before or the new one, never an empty or cut-off file.
C18_SnapshotIsNeverCut ==
    snapshot.kind # "cut"

\* C20 (as stated; under SpecRestart): the download counts outlast a restart:
\* the count of a record in the ledger main loads is not smaller than the count
\* the record had reached when the process was killed.
C20_CountsOutlastRestart ==
    [][Restarted
          => \A id \in DOMAIN records \cap DOMAIN records' :
                records'[id].downloads >= records[id].downloads]_vars

\* C21 (as stated; under SpecRestart): whenever nobody holds the mutex, every
\* record of the ledger has its archive in .cache/serve, also in the ledger
\* main loads after a kill in the middle of an upload or a removal.
C21_EveryRecordHasItsArchive ==
    (proc.state = "up" /\ lock = "free")
       => \A t \in DOMAIN records : records[t].file \in DOMAIN files

====
